---- MODULE Spec2Model ----
(***************************************************************************)
(* Verification model of the deet debugger (proj-1/deet): the Inferior     *)
(* (inferior.rs) that patches trap bytes into a traced child and resumes   *)
(* it, and the Debugger command loop (debugger.rs) that owns it.           *)
(*                                                                         *)
(* The traced child is modelled as a small machine: a byte-addressed       *)
(* memory image whose second word holds one-byte instructions, an          *)
(* instruction pointer, and the kernel's process table.  ptrace and        *)
(* waitpid act on that machine; every primitive the debugger issues is     *)
(* logged in `ops` for the command being executed.                         *)
(***************************************************************************)
EXTENDS Integers, Sequences, FiniteSets, TLC

\* ------------------------------------------------------------ bounds
\* Longest Debugger.breakpoints vector explored.
MaxBreakpoints == 2
\* Number of child processes the session may create.
MaxSpawns == 2

\* ------------------------------------------------- program constants
\* The trap opcode written by add_breakpoint (0xcc).
TRAP == 204
\* size_of::<usize>() on the x86-64 target that regs.rip implies.
WordSize == 8

\* -------------------------------------------------------- the target
\* Memory image of the target, address 0 first.  Word 0 is data (it holds
\* a genuine 0xCC byte at address 5); word 1 is code, one byte per
\* instruction:
\*    8  nop              9  nop  (entry point)   10  nop  (main)
\*   11  jnz  -> 10      12  jz   -> 14           13  exit
\*   14  kill (raises SIGKILL on itself)          15  nop
Image == <<0, 0, 0, 0, 0, 204, 0, 0,  144, 144, 144, 117, 116, 195, 15, 144>>
MemSize == Len(Image)
Mem0 == [a \in 0..(MemSize - 1) |-> Image[a + 1]]
\* Where the child is stopped by the exec SIGTRAP.
Entry == WordSize + 1
\* Exit codes the target may return.
ExitCodes == {0, 3}
\* Addresses a Break command may name; 24 lies outside mapped memory.
BreakAddrs == {5, 8, 10, 12, 13, 14, 24}
NoAddr == 0 - 1

\* Status values (inferior.rs Status, plus the Err arm of the Result).
Stopped(sig, rip, at) == [kind |-> "Stopped", sig |-> sig, rip |-> rip, code |-> 0, at |-> at]
Exited(code) == [kind |-> "Exited", sig |-> "none", rip |-> NoAddr, code |-> code, at |-> NoAddr]
Signaled(sig) == [kind |-> "Signaled", sig |-> sig, rip |-> NoAddr, code |-> 0, at |-> NoAddr]
Err == [kind |-> "Err", sig |-> "none", rip |-> NoAddr, code |-> 0, at |-> NoAddr]

\* Outcomes of the target executing the instruction at p with memory mem:
\* "go" to a next address, or a final Status.  `at` remembers the address
\* of an executed trap byte.
Exec1(mem, p) ==
    IF p \notin DOMAIN mem THEN {[k |-> "end", st |-> Stopped("SIGSEGV", p, NoAddr)]}
    ELSE CASE mem[p] = TRAP -> {[k |-> "end", st |-> Stopped("SIGTRAP", p + 1, p)]}
           [] mem[p] = 144  -> {[k |-> "go", rip |-> p + 1]}
           [] mem[p] = 117  -> {[k |-> "go", rip |-> p - 1], [k |-> "go", rip |-> p + 1]}
           [] mem[p] = 116  -> {[k |-> "go", rip |-> p + 2], [k |-> "go", rip |-> p + 1]}
           [] mem[p] = 195  -> {[k |-> "end", st |-> Exited(c)] : c \in ExitCodes}
           [] mem[p] = 15   -> {[k |-> "end", st |-> Signaled("SIGKILL")]}
           [] OTHER         -> {[k |-> "end", st |-> Stopped("SIGILL", p, NoAddr)]}

\* PTRACE_SINGLESTEP followed by the child's next state change.
StepOutcomes(mem, p) ==
    {IF o.k = "go" THEN Stopped("SIGTRAP", o.rip, NoAddr) ELSE o.st : o \in Exec1(mem, p)}

\* Addresses the target can reach from the set `front` by executing
\* instructions that do not end the run.
RECURSIVE Reach(_, _, _)
Reach(mem, front, seen) ==
    IF front = {} THEN seen
    ELSE LET nxt == UNION {{o.rip : o \in {x \in Exec1(mem, p) : x.k = "go"}} : p \in front}
         IN  Reach(mem, nxt \ (seen \cup front), seen \cup front)

\* PTRACE_CONT followed by the child's next state change.
ContOutcomes(mem, p) ==
    UNION {{o.st : o \in {x \in Exec1(mem, q) : x.k = "end"}} : q \in Reach(mem, {p}, {})}


\* ------------------------------------------------------------- state
VARIABLES
    inferior,     \* Debugger.inferior: None or the Inferior (child, break_map)
    breakpoints,  \* Debugger.breakpoints
    procs,        \* the kernel's view of every child created, indexed by pid
    pc,           \* position of the command loop
    report,       \* what the last command printed about the inferior
    lastCmd,      \* the command (or step of Run) executed last
    ops,          \* primitives issued by the last command, as <<name, pid>>
    writes,       \* write_byte calls made by the last command
    pre,          \* per address, the byte found by the latest trap-writing write_byte
    armed,        \* addresses holding the trap byte when PTRACE_CONT was last issued
    stopAt,       \* breakpoint address the inferior was rewound to by the last resume
    prevStopAt,   \* stopAt before the last resume
    lastResult,   \* what Inferior::cont returned to the last command
    lastArg       \* the address the last Break resolved to (NoAddr: none)

debuggerVars == <<inferior, breakpoints, procs, pc, report, lastCmd, ops, writes, pre,
                  armed, stopAt, prevStopAt, lastResult, lastArg>>

\* week3/linked_list: the two lists of main() and what the last call did.
VARIABLES
    list,         \* main's `list`
    new_list,     \* main's `new_list`, meaningful once cloned
    cloned,       \* whether `new_list = list.clone()` has run
    lastOp,       \* the list operation executed last
    lastRet       \* what the last pop_front returned: <<>> for None, <<v>> for Some(v)

listVars == <<list, new_list, cloned, lastOp, lastRet>>

\* LinkedList::new.  An Option<Box<Node>> is <<>> (None) or <<node>> (Some).
LinkedListNew == [head |-> <<>>, size |-> 0]

ListInit ==
    /\ list = LinkedListNew
    /\ new_list = LinkedListNew
    /\ cloned = FALSE
    /\ lastOp = "none"
    /\ lastRet = <<>>

\* proj-2/balancebeam: rate limiting as seen from the accept loop.
VARIABLES
    max_requests_per_minute,  \* ProxyState.max_requests_per_minute
    count_map,                \* ProxyState.count_map: ip -> count in this window
    open_conns,               \* per ip, the handle_connection tasks still running
    forwarded,                \* per ip, requests forwarded upstream since the last refresh
    rejected                  \* per ip, connections answered 429 since the last refresh

balancerVars == <<max_requests_per_minute, count_map, open_conns, forwarded, rejected>>

\* Client IP addresses.
Clients == {"10.0.0.1", "10.0.0.2"}

\* ProxyState as main builds it (lines 92-99), for a given option value.
BalancerInit(max) ==
    /\ max_requests_per_minute = max
    /\ count_map = [ip \in {} |-> 0]
    /\ open_conns = [ip \in Clients |-> 0]
    /\ forwarded = [ip \in Clients |-> 0]
    /\ rejected = [ip \in Clients |-> 0]

\* proj-1/deet, Inferior::print_backtrace on a target with nested calls.
VARIABLES
    t_rip,        \* the stopped target's instruction pointer
    t_rbp,        \* the stopped target's frame pointer
    t_stack,      \* the target's stack memory, word address -> word
    t_chain,      \* the functions active in the target, outermost first
    t_prologue,   \* the innermost function has not yet pushed its frame pointer
    frames,       \* function names printed by the last print_backtrace
    bt_result     \* how it ended: "none" (not run), "ok", "err", "panic"

unwindVars == <<t_rip, t_rbp, t_stack, t_chain, t_prologue, frames, bt_result>>

\* No target with a call stack is being debugged.
UnwindIdle ==
    /\ t_rip = 0
    /\ t_rbp = 0
    /\ t_stack = <<>>
    /\ t_chain = <<>>
    /\ t_prologue = FALSE
    /\ frames = <<>>
    /\ bt_result = "none"

\* proj-2/balancebeam: the upstream lists, their mutexes, and the tasks
\* that lock them.
VARIABLES
    upstream_addresses,       \* ProxyState.upstream_addresses (the Vec inside the mutex)
    dead_upstream_addresses,  \* ProxyState.dead_upstream_addresses
    upstream_lock,            \* the task holding the upstream_addresses mutex, or Free
    dead_lock,                \* the task holding the dead_upstream_addresses mutex, or Free
    task_pc,                  \* per task, where it is
    upstream_idx,             \* per connection task, the index it picked
    new_dead_addresses,       \* perform_health_check's vector of flags
    connect_result            \* per connection task, what connect_to_upstream returned last

upstreamVars == <<upstream_addresses, dead_upstream_addresses, upstream_lock, dead_lock,
                  task_pc, upstream_idx, new_dead_addresses, connect_result>>

\* Number of upstreams given with --upstream.
NumUpstreams == 2
Upstreams == 1..NumUpstreams
\* Tasks running handle_connection, and the health check task of main.
ConnTasks == {"conn1", "conn2"}
HealthTask == "health"
Free == "free"
NoResult == [kind |-> "none", addr |-> 0]

\* main, lines 92-107: every upstream is in upstream_addresses, no mutex is
\* held, the health check task sleeps and no connection is being handled.
UpstreamInit ==
    /\ upstream_addresses = [i \in 1..NumUpstreams |-> i]
    /\ dead_upstream_addresses = <<>>
    /\ upstream_lock = Free
    /\ dead_lock = Free
    /\ task_pc = [t \in ConnTasks \cup {HealthTask} |-> IF t = HealthTask THEN "sleep" ELSE "idle"]
    /\ upstream_idx = [t \in ConnTasks |-> 0]
    /\ new_dead_addresses = <<>>
    /\ connect_result = [t \in ConnTasks |-> NoResult]

\* week6/parallel_map: one call of parallel_map.
VARIABLES
    input0,         \* the input vector as passed to the call
    num_threads,    \* the num_threads argument
    input_vec,      \* what the sender thread has not popped yet
    output_vec,     \* the vector main fills in
    chan_in,        \* messages in flight from sender_in to receiver_in
    chan_out,       \* messages in flight from sender_out to receiver_out
    sender_in,      \* TRUE while main's sender_in is not dropped
    sender_out,     \* TRUE while main's sender_out is not dropped
    thread_send,    \* the sender thread: "running" or "finished"
    threads,        \* per worker thread, where it is
    held,           \* per worker thread, the (i, result) it is about to send
    counter,        \* the collecting loop's counter
    main_pc,        \* where the calling thread is
    joined,         \* number of threads joined so far
    processed,      \* per index, the workers that applied f to its value
    written         \* per index, the number of stores to output_vec[i]

mapVars == <<input0, num_threads, input_vec, output_vec, chan_in, chan_out, sender_in,
             sender_out, thread_send, threads, held, counter, main_pc, joined,
             processed, written>>

\* A slot of output_vec that set_len exposed and nothing has stored to yet.
Uninit == -1

\* parallel_map, lines 10-35, for the call parallel_map(input, n, f): the
\* output vector has len slots, both channels are empty, n workers and
\* the sender thread are spawned, main is about to collect.
MapInit(input, n) ==
    /\ input0 = input
    /\ num_threads = n
    /\ input_vec = input
    /\ output_vec = [i \in 1..Len(input) |-> Uninit]
    /\ chan_in = <<>>
    /\ chan_out = <<>>
    /\ sender_in = TRUE
    /\ sender_out = TRUE
    /\ thread_send = "running"
    /\ threads = [w \in 1..n |-> "recv"]
    /\ held = [w \in 1..n |-> <<>>]
    /\ counter = 0
    /\ main_pc = "collect"
    /\ joined = 0
    /\ processed = [i \in 1..Len(input) |-> <<>>]
    /\ written = [i \in 1..Len(input) |-> 0]

\* No call worth looking at: an empty vector and no worker.
MapIdle == MapInit(<<>>, 0)

vars == <<debuggerVars, listVars, balancerVars, unwindVars, upstreamVars, mapVars>>
\* What the debugger's commands leave alone: the other programs.
notDebugger == <<listVars, balancerVars, unwindVars, upstreamVars, mapVars>>

EmptyMap == [a \in {} |-> 0]
\* Option<Inferior>::None, kept record-shaped.
None == [child |-> 0, break_map |-> EmptyMap]
IsSome(inf) == inf.child # 0

\* A process that has terminated and been reaped.
DeadProc(st, code) == [st |-> st, rip |-> NoAddr, mem |-> Mem0, code |-> code]
\* A freshly exec'ed child, stopped (or about to stop) at its entry point.
NewProc == [st |-> "stopped", rip |-> Entry, mem |-> Mem0, code |-> 0]

\* A world W carries what the Inferior methods read and change: the
\* Inferior itself (inf), the process table, and the logs.
Pid(W) == W.inf.child
Proc(W) == W.procs[Pid(W)]
Live(W) == Proc(W).st = "stopped"
Log(W, op) == [W EXCEPT !.ops = Append(@, <<op, Pid(W)>>)]

\* addr & -(size_of::<usize>())
align_addr_to_word(addr) == addr - (addr % WordSize)

\* PTRACE_PEEKDATA: the word at `aligned` as its bytes, least significant
\* first; fails on a dead process or an unmapped address.
PtraceRead(W, aligned) ==
    IF Live(W) /\ aligned \in DOMAIN Proc(W).mem
    THEN [ok |-> TRUE, word |-> [i \in 0..(WordSize - 1) |-> Proc(W).mem[aligned + i]]]
    ELSE [ok |-> FALSE, word |-> [i \in 0..(WordSize - 1) |-> 0]]

\* PTRACE_POKEDATA of a word given as its bytes.
PtraceWrite(W, aligned, word) ==
    [W EXCEPT !.procs[Pid(W)].mem =
        [a \in DOMAIN @ |-> IF a \in aligned..(aligned + WordSize - 1)
                            THEN word[a - aligned] ELSE @[a]]]

MapInsert(m, a, v) == [x \in (DOMAIN m) \cup {a} |-> IF x = a THEN v ELSE m[x]]

\* struct Breakpoint
Breakpoint(addr, orig_byte) == [addr |-> addr, orig_byte |-> orig_byte]

\* Variant of extract_byte that forgets the shift: word & 0xff.
orig_byte_no_shift(word, byte_offset) == word[0]
\* (word >> 8 * byte_offset) & 0xff, on a word given as its bytes.
extract_byte(word, byte_offset) == word[byte_offset]

\* Inferior::write_byte.  word & !(0xff << 8*off) clears byte `off` of the
\* word; | (val << 8*off) sets it.  `writes` and `pre` record what the byte
\* at addr was before the call.
write_byte(W, addr, val) ==
    LET aligned_addr == align_addr_to_word(addr)
        byte_offset == addr - aligned_addr
        rd == PtraceRead(W, aligned_addr)
        W1 == Log(W, "peek")
    IN  IF ~rd.ok
        THEN [w |-> [W1 EXCEPT !.writes = Append(@, [addr |-> addr, val |-> val, pre |-> 0, ok |-> FALSE])],
              ok |-> FALSE, orig |-> 0]
        ELSE LET orig_byte == extract_byte(rd.word, byte_offset)
                 masked_word == [i \in 0..(WordSize - 1) |-> IF i = byte_offset THEN 0 ELSE rd.word[i]]
                 updated_word == [i \in 0..(WordSize - 1) |->
                                    IF i = byte_offset THEN val ELSE masked_word[i]]
                 W2 == PtraceWrite(Log(W1, "poke"), aligned_addr, updated_word)
                 W3 == [W2 EXCEPT !.inf.break_map = MapInsert(@, addr, Breakpoint(addr, orig_byte)),
                                  !.writes = Append(@, [addr |-> addr, val |-> val,
                                                        pre |-> Proc(W).mem[addr], ok |-> TRUE]),
                                  !.pre = IF val = TRAP THEN MapInsert(@, addr, Proc(W).mem[addr]) ELSE @]
             IN  [w |-> W3, ok |-> TRUE, orig |-> orig_byte]

\* Inferior::add_breakpoint
add_breakpoint(W, addr) == write_byte(W, addr, TRAP)

\* The child changes state as `st` says and Inferior::wait observes it:
\* waitpid reaps a terminated child (logged as "reaped" after the waitpid
\* that did it); for a stop it also reads the registers.
Wait(W, st) ==
    LET W1 == Log(W, "waitpid")
    IN  IF st.kind = "Stopped"
        THEN Log([W1 EXCEPT !.procs[Pid(W)].rip = st.rip], "getregs")
        ELSE [Log(W1, "reaped") EXCEPT
                 !.procs[Pid(W)] = DeadProc(IF st.kind = "Exited" THEN "exited" ELSE "signaled", st.code)]

\* Variant of PostStop that writes the original byte at rip instead of at
\* the breakpoint's address rip - 1.
PostStop_restore_at_rip(W, result) ==
    LET W1 == Log(W, "getregs")
    IN  IF ~Live(W)
        THEN [w |-> W1, res |-> Err]
        ELSE LET rip == Proc(W).rip
             IN  IF (rip - 1) \in DOMAIN W.inf.break_map
                 THEN LET breakpoint == W.inf.break_map[rip - 1]
                          wb == write_byte(W1, rip, breakpoint.orig_byte)
                          W2 == Log([wb.w EXCEPT !.procs[Pid(W)].rip = rip - 1,
                                                 !.stopAt = rip - 1], "setregs")
                      IN  [w |-> W2, res |-> result]
                 ELSE [w |-> W1, res |-> result]
\* Inferior::cont, lines 122-133: after the wait, look at rip again and
\* undo a breakpoint found one byte behind it.  `result` is the status
\* wait() returned at line 120; it is returned as it is.
PostStop(W, result) ==
    LET W1 == Log(W, "getregs")
    IN  IF ~Live(W)
        THEN [w |-> W1, res |-> Err]
        ELSE LET rip == Proc(W).rip
             IN  IF (rip - 1) \in DOMAIN W.inf.break_map
                 THEN LET breakpoint == W.inf.break_map[rip - 1]
                          wb == write_byte(W1, breakpoint.addr, breakpoint.orig_byte)
                          W2 == Log([wb.w EXCEPT !.procs[Pid(W)].rip = rip - 1,
                                                 !.stopAt = rip - 1], "setregs")
                      IN  [w |-> W2, res |-> result]
                 ELSE [w |-> W1, res |-> result]

\* Inferior::cont, lines 119-120 and on: PTRACE_CONT, wait, post-process.
Resume(W) ==
    LET m == Proc(W).mem
        W1 == [Log(W, "cont") EXCEPT !.armed = {a \in DOMAIN m : m[a] = TRAP}]
    IN  {PostStop(Wait(W1, co), co) : co \in ContOutcomes(m, Proc(W).rip)}

\* Variant of StepOver without the early return of lines 106-113: the trap
\* is written and PTRACE_CONT issued whatever the step ended in.
StepOver_goes_on_after_termination(W, rip) ==
    LET W1 == Log(W, "step")
    IN  UNION {LET W2 == Wait(W1, so)
               IN  IF so.kind # "Stopped"
                   THEN {[w |-> Log(write_byte(W2, rip, TRAP).w, "cont"), res |-> so]}
                   ELSE Resume(write_byte(W2, rip, TRAP).w)
               : so \in StepOutcomes(Proc(W).mem, rip)}

\* Inferior::cont, lines 100-117: the step taken when rip - 1 is a key of
\* the breakpoint map.
StepOver(W, rip) ==
    LET W1 == Log(W, "step")
    IN  UNION {LET W2 == Wait(W1, so)
               IN  IF so.kind # "Stopped"
                   THEN {[w |-> W2, res |-> so]}
                   ELSE Resume(write_byte(W2, rip, TRAP).w)
               : so \in StepOutcomes(Proc(W).mem, rip)}

\* Inferior::cont: the set of possible (world, result) pairs.
InferiorCont(W) ==
    LET W1 == [Log(W, "getregs") EXCEPT !.stopAt = NoAddr, !.armed = {}]
    IN  IF ~Live(W)
        THEN {[w |-> W1, res |-> Err]}
        ELSE LET rip == Proc(W).rip
             IN  IF (rip - 1) \in DOMAIN W.inf.break_map
                 THEN StepOver(W1, rip)
                 ELSE Resume(W1)


\* Inferior::kill: Child::kill sends SIGKILL; it fails once the pid is gone.
InferiorKill(W) ==
    IF Live(W)
    THEN [w |-> Log(W, "kill"), ok |-> TRUE]
    ELSE [w |-> Log(W, "kill"), ok |-> FALSE]

\* Inferior::print_location / the symbol table: the function an address
\* belongs to ("" when the table has no entry).
FuncOf(addr) == IF addr \in 10..(MemSize - 1) THEN "main" ELSE ""

\* Inferior::print_backtrace for the frames this target can be stopped in:
\* the frame of main ends the walk; an address without line information
\* makes unwrap() panic.
InferiorBacktrace(W) ==
    LET W1 == Log(W, "getregs")
    IN  IF ~Live(W) THEN [w |-> W1, panic |-> FALSE, frames |-> <<>>]
        ELSE IF FuncOf(Proc(W).rip) = "main"
             THEN [w |-> W1, panic |-> FALSE, frames |-> <<"main">>]
             ELSE [w |-> W1, panic |-> TRUE, frames |-> <<>>]

\* Inferior::new, after the spawn: what the first waitpid(WNOHANG) saw.
\*   "spawn_err"   Command::spawn failed, no child exists
\*   "not_stopped" the child exists but waitpid did not report Stopped
\*   "ok"          the child is stopped by the exec SIGTRAP
StartOutcomes == {"spawn_err", "not_stopped", "ok"}

RECURSIVE InstallAll(_, _)
InstallAll(W, bs) ==
    IF bs = <<>> THEN W ELSE InstallAll(add_breakpoint(W, Head(bs)).w, Tail(bs))

\* Inferior::new.  W.inf is the caller's current inferior; the result's
\* `some` says whether an Inferior was returned, and `inf` is that Inferior.
InferiorNew(W, bps, outcome) ==
    LET child_id == Len(W.procs) + 1
        spawned == [W EXCEPT !.procs = Append(@, NewProc),
                            !.ops = Append(Append(@, <<"spawn", child_id>>), <<"waitpid", child_id>>)]
    IN  CASE outcome = "spawn_err" ->
                [w |-> [W EXCEPT !.ops = Append(@, <<"spawn", 0>>)], some |-> FALSE]
          [] outcome = "not_stopped" ->
                [w |-> spawned, some |-> FALSE]
          [] OTHER ->
                LET fresh == [spawned EXCEPT !.inf = [child |-> child_id, break_map |-> EmptyMap],
                                             !.pre = EmptyMap, !.armed = {}, !.stopAt = NoAddr]
                IN  [w |-> InstallAll(fresh, bps), some |-> TRUE]

\* ---------------------------------------------------------- Debugger
Report(kind) == [kind |-> kind, sig |-> "none", rip |-> NoAddr, code |-> 0, at |-> NoAddr]

\* The world a command starts from: the logs of the previous command are
\* dropped.
World == [inf |-> inferior, procs |-> procs, ops |-> <<>>, writes |-> <<>>,
          pre |-> pre, armed |-> armed, stopAt |-> stopAt]

Commit(W) ==
    /\ inferior' = W.inf
    /\ procs' = W.procs
    /\ ops' = W.ops
    /\ writes' = W.writes
    /\ pre' = W.pre
    /\ armed' = W.armed
    /\ stopAt' = W.stopAt

\* Debugger::kill without the panic!() of line 79: the wait is performed
\* even though the kill failed.
DebuggerKill_wait_after_failed_kill(W) ==
    IF ~IsSome(W.inf) THEN [w |-> W, panic |-> FALSE]
    ELSE LET k == InferiorKill(W)
         IN  IF ~k.ok THEN [w |-> Log(k.w, "waitpid"), panic |-> FALSE]
             ELSE [w |-> [Wait(k.w, Signaled("SIGKILL")) EXCEPT !.procs[Pid(W)].st = "killed"],
                   panic |-> FALSE]

\* Debugger::kill: kill the inferior and wait for it; self.inferior is
\* left as it was.  `panic` is the panic!() of line 79.  A child ended
\* this way is marked "killed" to tell it from one that killed itself.
DebuggerKill(W) ==
    IF ~IsSome(W.inf) THEN [w |-> W, panic |-> FALSE]
    ELSE LET k == InferiorKill(W)
         IN  IF ~k.ok THEN [w |-> k.w, panic |-> TRUE]
             ELSE [w |-> [Wait(k.w, Signaled("SIGKILL")) EXCEPT !.procs[Pid(W)].st = "killed"],
                   panic |-> FALSE]

\* Debugger::cont whose None arm prints nothing.
DebuggerCont_silent_when_none(W) ==
    IF ~IsSome(W.inf)
    THEN {[w |-> W, res |-> Report("NoResult"), rep |-> Report("Nothing"), panic |-> FALSE]}
    ELSE {CASE r.res.kind = "Err" ->
                 [w |-> r.w, res |-> r.res, rep |-> r.res, panic |-> FALSE]
            [] r.res.kind = "Stopped" ->
                 [w |-> r.w, res |-> r.res, rep |-> r.res, panic |-> FALSE]
            [] r.res.kind = "Exited" ->
                 LET k == DebuggerKill(r.w)
                 IN  [w |-> k.w, res |-> r.res, rep |-> r.res, panic |-> k.panic]
            [] OTHER ->
                 [w |-> r.w, res |-> r.res, rep |-> Report("Nothing"), panic |-> FALSE]
          : r \in InferiorCont(W)}

\* Debugger::cont: the possible (world, result, report, panic) outcomes.
DebuggerCont(W) ==
    IF ~IsSome(W.inf)
    THEN {[w |-> W, res |-> Report("NoResult"), rep |-> Report("NotRunning"), panic |-> FALSE]}
    ELSE {CASE r.res.kind = "Err" ->
                 [w |-> r.w, res |-> r.res, rep |-> r.res, panic |-> FALSE]
            [] r.res.kind = "Stopped" ->
                 [w |-> r.w, res |-> r.res, rep |-> r.res, panic |-> FALSE]
            [] r.res.kind = "Exited" ->
                 LET k == DebuggerKill(r.w)
                 IN  [w |-> k.w, res |-> r.res, rep |-> r.res, panic |-> k.panic]
            [] OTHER ->
                 [w |-> r.w, res |-> r.res, rep |-> Report("Nothing"), panic |-> FALSE]
          : r \in InferiorCont(W)}

\* Tokens a Break command may carry, and what they resolve to
\* (parse_address for "*...", the symbol table for lines and functions).
Locations == {"*0x5", "*0x8", "*0xa", "*0xc", "*0xd", "*0xe", "*0x18", "*zz",
              "12", "99", "main", "nosuch"}
parse_address(s) ==
    CASE s = "*0x5" -> 5 [] s = "*0x8" -> 8 [] s = "*0xa" -> 10 [] s = "*0xc" -> 12
      [] s = "*0xd" -> 13 [] s = "*0xe" -> 14 [] s = "*0x18" -> 24 [] OTHER -> NoAddr
get_addr_for_line(s) == IF s = "12" THEN 12 ELSE NoAddr
get_addr_for_function(s) == IF s = "main" THEN 10 ELSE NoAddr
Resolve(s) ==
    IF s \in {"*0x5", "*0x8", "*0xa", "*0xc", "*0xd", "*0xe", "*0x18", "*zz"}
    THEN parse_address(s)
    ELSE IF s \in {"12", "99"} THEN get_addr_for_line(s) ELSE get_addr_for_function(s)

\* Debugger::add_breakpoint
DebuggerAddBreakpoint(W, bps, addr) ==
    [bps |-> Append(bps, addr),
     w |-> IF IsSome(W.inf) THEN add_breakpoint(W, addr).w ELSE W]

DebuggerInit ==
    /\ inferior = None
    /\ breakpoints = <<>>
    /\ procs = <<>>
    /\ pc = "prompt"
    /\ report = Report("Nothing")
    /\ lastResult = Report("NoResult")
    /\ lastCmd = "none"
    /\ ops = <<>>
    /\ writes = <<>>
    /\ pre = EmptyMap
    /\ armed = {}
    /\ stopAt = NoAddr
    /\ prevStopAt = NoAddr
    /\ lastArg = NoAddr

Init ==
    /\ DebuggerInit
    /\ ListInit
    /\ BalancerInit(0)
    /\ UnwindIdle
    /\ UpstreamInit
    /\ MapIdle

\* DebuggerCommand::Run, up to the assignment of self.inferior (lines
\* 120-123).  When an Inferior was created the loop is at "run_cont" and
\* the only step it can take next is RunCont.
Run ==
    /\ pc = "prompt"
    /\ UNCHANGED notDebugger
    /\ lastCmd' = "Run"
    /\ LET k == DebuggerKill(World)
       IN  IF k.panic
           THEN /\ Commit(k.w)
                /\ pc' = "panicked"
                /\ UNCHANGED <<breakpoints, report, lastResult, prevStopAt>>
                /\ lastArg' = NoAddr
           ELSE \E outcome \in StartOutcomes :
                /\ outcome # "spawn_err" => Len(procs) < MaxSpawns
                /\ LET n == InferiorNew(k.w, breakpoints, outcome)
                   IN  /\ Commit(n.w)
                       /\ pc' = IF n.some THEN "run_cont" ELSE "prompt"
                       /\ report' = IF n.some THEN Report("Nothing") ELSE Report("StartError")
                       /\ lastResult' = Report("NoResult")
                       /\ prevStopAt' = IF n.some THEN NoAddr ELSE prevStopAt
                       /\ lastArg' = NoAddr
                       /\ UNCHANGED breakpoints

\* The effect of Debugger::cont, shared by Run and Continue.
DoCont(cmd) ==
    /\ lastCmd' = cmd
    /\ \E d \in DebuggerCont(World) :
        /\ Commit(d.w)
        /\ report' = d.rep
        /\ lastResult' = d.res
        /\ pc' = IF d.panic THEN "panicked" ELSE "prompt"
    /\ prevStopAt' = stopAt
    /\ lastArg' = NoAddr
    /\ UNCHANGED breakpoints

\* DebuggerCommand::Run, the self.cont() of line 124.
RunCont ==
    /\ pc = "run_cont"
    /\ UNCHANGED notDebugger
    /\ DoCont("RunCont")

\* DebuggerCommand::Cont
Cont ==
    /\ pc = "prompt"
    /\ UNCHANGED notDebugger
    /\ DoCont("Cont")

\* DebuggerCommand::Backtrace
Backtrace ==
    /\ pc = "prompt"
    /\ UNCHANGED notDebugger
    /\ lastCmd' = "Backtrace"
    /\ IF IsSome(inferior)
       THEN LET b == InferiorBacktrace(World)
            IN  /\ Commit(b.w)
                /\ pc' = IF b.panic THEN "panicked" ELSE "prompt"
                /\ report' = [Report("Backtrace") EXCEPT !.code = Len(b.frames)]
       ELSE /\ Commit(World)
            /\ pc' = "prompt"
            /\ report' = Report("Nothing")
    /\ lastResult' = Report("NoResult")
    /\ lastArg' = NoAddr
    /\ UNCHANGED <<breakpoints, prevStopAt>>

\* DebuggerCommand::Break
Break ==
    /\ pc = "prompt"
    /\ UNCHANGED notDebugger
    /\ lastCmd' = "Break"
    /\ \E loc \in Locations :
        LET addr == Resolve(loc)
        IN  /\ lastArg' = addr
            /\ IF addr = NoAddr
               THEN /\ Commit(World)
                    /\ UNCHANGED breakpoints
               ELSE /\ Len(breakpoints) < MaxBreakpoints
                    /\ LET a == DebuggerAddBreakpoint(World, breakpoints, addr)
                       IN  /\ Commit(a.w)
                           /\ breakpoints' = a.bps
    /\ report' = Report("Nothing")
    /\ lastResult' = Report("NoResult")
    /\ UNCHANGED <<pc, prevStopAt>>

\* DebuggerCommand::Quit
Quit ==
    /\ pc = "prompt"
    /\ UNCHANGED notDebugger
    /\ lastCmd' = "Quit"
    /\ LET k == DebuggerKill(World)
       IN  /\ Commit(k.w)
           /\ pc' = IF k.panic THEN "panicked" ELSE "quit"
    /\ report' = Report("Nothing")
    /\ lastResult' = Report("NoResult")
    /\ lastArg' = NoAddr
    /\ UNCHANGED <<breakpoints, prevStopAt>>

Next == Run \/ RunCont \/ Cont \/ Backtrace \/ Break \/ Quit

Spec == Init /\ [][Next]_vars


\* ------------------------------------------------------------ claims
\* Memory of the current inferior's process.
InfMem == procs[inferior.child].mem
InfLive == IsSome(inferior) /\ procs[inferior.child].st = "stopped"
Resumed == lastCmd \in {"Cont", "RunCont"}
Range(f) == {f[x] : x \in DOMAIN f}
\* The i-th write_byte of the last command is the last one made to its address.
LastWriteTo(i) == \A j \in (i + 1)..Len(writes) : writes[j].addr # writes[i].addr
\* The last command was one that installs breakpoints (Break, or the Start of Run).
Installing == lastCmd \in {"Break", "Run"} /\ IsSome(inferior)

\* C1: when a Continue stops because the target executed the trap at an
\* installed breakpoint a, the instruction pointer in the returned
\* stopped status, which the Debugger prints, is a (not a+1).
C1_ReportedIpIsBreakpoint ==
    (Resumed /\ lastResult.kind = "Stopped" /\ lastResult.at \in DOMAIN inferior.break_map)
        => (lastResult.rip = lastResult.at /\ report.rip = lastResult.at)

\* C2: after a Continue has stopped at breakpoint a, the next Continue has
\* the trap opcode written at a again by the time it lets the target run,
\* so the target stops at a when it reaches a again.
C2_RearmedOnNextContinue ==
    (lastCmd = "Cont" /\ prevStopAt # NoAddr /\ <<"cont", inferior.child>> \in Range(ops))
        => prevStopAt \in armed

\* C3: immediately after a successful install at a, the byte at a is the
\* trap opcode and the recorded original byte is the byte that was at a
\* just before the call.
C3_InstallPatchesAndRecords ==
    Installing =>
        \A i \in DOMAIN writes :
            (writes[i].ok /\ LastWriteTo(i)) =>
                /\ InfMem[writes[i].addr] = TRAP
                /\ writes[i].addr \in DOMAIN inferior.break_map
                /\ inferior.break_map[writes[i].addr].orig_byte = writes[i].pre
                /\ inferior.break_map[writes[i].addr].addr = writes[i].addr

\* C3 witness: a Break on a live inferior installed at an address in the
\* middle of a word whose byte was not the trap opcode.
C3_Witness ==
    /\ lastCmd = "Break"
    /\ Len(writes) = 1
    /\ writes[1].ok
    /\ writes[1].addr % WordSize # 0
    /\ writes[1].pre # TRAP
    /\ writes[1].pre # InfMem[align_addr_to_word(writes[1].addr)]

\* C4: when a hit breakpoint a is restored from its recorded original
\* byte, the byte at a is again what it was before the install of a that
\* preceded the restore.
C4_InstallRestoreRoundTrip ==
    (Resumed /\ stopAt # NoAddr) =>
        /\ InfLive
        /\ stopAt \in DOMAIN pre
        /\ InfMem[stopAt] = pre[stopAt]

\* C4 witness: a resume hit a breakpoint installed over a program byte and
\* restored it.
C4_Witness ==
    /\ Resumed
    /\ stopAt # NoAddr
    /\ pre[stopAt] # TRAP
    /\ InfMem[stopAt] = Mem0[stopAt]

\* C5: an install at an address that already holds the trap opcode leaves
\* the recorded original byte equal to the genuine program byte.
C5_InstallIdempotent ==
    Installing =>
        \A i \in DOMAIN writes :
            (writes[i].ok /\ LastWriteTo(i) /\ writes[i].pre = TRAP) =>
                inferior.break_map[writes[i].addr].orig_byte = Mem0[writes[i].addr]

\* C6: with Break on a function issued before the first Run, the first
\* stop reported by that Run, when the target reaches the function's
\* address a, is at a.
C6_FirstStopAtFunction ==
    LET a == get_addr_for_function("main")
    IN  (lastCmd = "RunCont" /\ inferior.child = 1 /\ a \in Range(breakpoints)
            /\ lastResult.at = a)
            => (report.kind = "Stopped" /\ report.rip = a)

\* C7: when the target started by Run runs to a normal exit with code c,
\* the Continue that observes it reports exited(c).
C7_ExitReported ==
    (lastCmd = "RunCont" /\ procs[inferior.child].st = "exited")
        => (report.kind = "Exited" /\ report.code = procs[inferior.child].code)

\* C8: whenever Inferior::cont returned exited or killed-by-signal, the
\* Debugger holds no inferior when it accepts the next command.
C8_NoProcessAfterTermination ==
    (pc = "prompt" /\ lastResult.kind \in {"Exited", "Signaled"}) => ~IsSome(inferior)

\* C9: a Continue issued when the most recently started inferior has been
\* killed by the Debugger reports "not running" and issues no primitive.
C9_ContinueAfterKill ==
    (lastCmd = "Cont" /\ IsSome(inferior) /\ procs[inferior.child].st = "killed")
        => (report.kind = "NotRunning" /\ ops = <<>>)

\* C10: at most one child created by the Debugger is alive and un-reaped.
C10_AtMostOneChild ==
    Cardinality({p \in DOMAIN procs : procs[p].st = "stopped"}) <= 1

\* C11: when Start fails during a Run command the controller reports the
\* error and holds no inferior afterwards, whether or not it held one
\* before that Run.
C11_StartFailureLeavesNoProcess ==
    (lastCmd = "Run" /\ report.kind = "StartError") => ~IsSome(inferior)

BreakStep == pc = "prompt" /\ lastCmd' = "Break"
WasLive == IsSome(inferior) /\ procs[inferior.child].st = "stopped"

\* C12: a Break that resolves to a appends a to the persisted set and, when
\* an inferior is live, leaves the trap opcode at a in its memory, still
\* there when the next resume issues its continue; a Break that does not
\* resolve changes neither the set nor the inferior (map and memory).
C12_BreakTakesEffect ==
    [][ /\ (BreakStep /\ lastArg' # NoAddr) =>
              /\ breakpoints' = Append(breakpoints, lastArg')
              /\ WasLive => /\ lastArg' \in DOMAIN procs'[inferior.child].mem
                            /\ procs'[inferior.child].mem[lastArg'] = TRAP
        /\ (BreakStep /\ lastArg' = NoAddr) =>
              UNCHANGED <<breakpoints, inferior, procs>>
        /\ (lastCmd = "Break" /\ lastArg # NoAddr /\ WasLive /\ lastCmd' = "Cont"
              /\ <<"cont", inferior.child>> \in Range(ops')) =>
              lastArg \in armed'
      ]_vars

\* C13: the persisted set only grows, and every inferior a Run has just
\* started holds the trap opcode at every address of the set before the
\* target runs (the loop is at "run_cont", nothing has been resumed yet).
C13_PersistedAcrossRestarts ==
    [][ /\ Len(breakpoints') >= Len(breakpoints)
        /\ SubSeq(breakpoints', 1, Len(breakpoints)) = breakpoints
        /\ pc' = "run_cont" =>
              \A a \in Range(breakpoints') :
                  /\ a \in DOMAIN procs'[inferior'.child].mem
                  /\ procs'[inferior'.child].mem[a] = TRAP
      ]_vars

C15_InstallFailurePropagates ==
    (\E i \in DOMAIN writes : writes[i].val = TRAP /\ ~writes[i].ok) =>
        report.kind \in {"StartError", "Err"}

\* C17: with no inferior, Continue and Backtrace change neither the
\* persisted set nor the (absent) inferior nor any child, issue no trace
\* primitive, and Continue reports that nothing is running.
C17_NoProcessNoOps ==
    [][ (pc = "prompt" /\ ~IsSome(inferior) /\ lastCmd' \in {"Cont", "Backtrace"}) =>
          /\ UNCHANGED <<breakpoints, inferior, procs, pc>>
          /\ ops' = <<>>
          /\ writes' = <<>>
          /\ lastCmd' = "Cont" => report'.kind = "NotRunning"
          /\ lastCmd' = "Backtrace" => report'.kind = "Nothing"
      ]_vars
C17_Witness ==
    /\ lastCmd = "Cont"
    /\ ~IsSome(inferior)
    /\ report.kind = "NotRunning"
    /\ breakpoints # <<>>
    /\ procs # <<>>


\* A Continue step that resumed the inferior held before it: a step or a
\* continue primitive was issued on its child.
ContinueResumes ==
    /\ pc = "prompt"
    /\ lastCmd' = "Cont"
    /\ WasLive
    /\ \E i \in DOMAIN ops' : ops'[i] \in {<<"step", inferior.child>>, <<"cont", inferior.child>>}

\* C21: when the target is stopped at a hit breakpoint a (rewound to a),
\* the next resume starts by executing the original instruction at a: the
\* byte at a is not the trap opcode when the target is set running.
C21_OriginalInstructionRuns ==
    [][ (ContinueResumes /\ stopAt # NoAddr) =>
            /\ procs[inferior.child].rip = stopAt
            /\ procs[inferior.child].mem[stopAt] # TRAP
      ]_vars

\* C22: when the single-step of a resume ends with the target exited or
\* killed by a signal (the wait after the step reaped the child), the
\* resume returns that status at once: no byte is written, and the step
\* and that wait are the last trace primitives of the resume (only the
\* Debugger's own kill of an exited inferior may follow).
C22_StepTerminationReturned ==
    (Resumed /\ IsSome(inferior) /\ Len(ops) >= 4
        /\ SubSeq(ops, 2, 4) = <<<<"step", inferior.child>>, <<"waitpid", inferior.child>>,
                                 <<"reaped", inferior.child>>>>) =>
        LET p == inferior.child
        IN  /\ lastResult.kind = (IF procs[p].st = "exited" THEN "Exited" ELSE "Signaled")
            /\ lastResult.code = procs[p].code
            /\ writes = <<>>
            /\ \A j \in 5..Len(ops) : ops[j] = <<"kill", p>> /\ lastResult.kind = "Exited"
C22_Witness ==
    /\ lastCmd = "Cont"
    /\ IsSome(inferior)
    /\ lastResult.kind = "Signaled"
    /\ <<"step", inferior.child>> \in Range(ops)
    /\ procs[inferior.child].st = "signaled"

\* C23: in a live inferior at the prompt every address of the breakpoint
\* map holds the trap opcode, except the one the inferior is stopped at
\* after a hit; in particular when a resume returns a stop every mapped
\* address other than the one just hit holds the trap opcode.
C23_MappedAddressesArmed ==
    (pc = "prompt" /\ InfLive) =>
        \A a \in DOMAIN inferior.break_map :
            a # stopAt => (a \in DOMAIN InfMem /\ InfMem[a] = TRAP)

\* C24: restoring the original byte at a hit breakpoint leaves the
\* breakpoint map as it was: after any sequence of Run, Break and Continue
\* the recorded original byte of every entry is the program byte that was
\* at that address before it was first patched.
C24_OriginalByteKept ==
    [][ /\ IsSome(inferior') =>
              \A a \in DOMAIN inferior'.break_map : inferior'.break_map[a].orig_byte = Mem0[a]
        /\ (lastCmd' \in {"Cont", "RunCont"} /\ stopAt' # NoAddr /\ inferior'.child = inferior.child) =>
              inferior'.break_map[stopAt'] = inferior.break_map[stopAt']
      ]_vars

\* C25: the addresses of the current inferior's breakpoint map are all in
\* the persisted set of requested addresses.
C25_MapWithinRequested ==
    IsSome(inferior) => DOMAIN inferior.break_map \subseteq Range(breakpoints)


\* ================================================= week3/linked_list
MaxListLen == 3
\* Values pushed (main pushes 1..11; two values are enough to tell order).
Values == {1, 2}

get_size(l) == l.size
is_empty(l) == get_size(l) = 0

\* LinkedList::push_front without the size update.
push_front_no_count(l, value) ==
    [head |-> <<[value |-> value, next |-> l.head]>>, size |-> l.size]

\* LinkedList::push_front: the new node takes the old head as its next.
push_front(l, value) ==
    [head |-> <<[value |-> value, next |-> l.head]>>, size |-> l.size + 1]

\* LinkedList::pop_front: `?` returns None on an empty head and touches
\* nothing else.
pop_front(l) ==
    IF l.head = <<>>
    THEN [l |-> l, ret |-> <<>>]
    ELSE LET node == l.head[1]
         IN  [l |-> [head |-> node.next, size |-> l.size - 1], ret |-> <<node.value>>]

\* The walk from a head along `next` (Display::fmt, the iterator, the first
\* loop of clone): the values met, front first.
RECURSIVE Walk(_)
Walk(current) ==
    IF current = <<>> THEN <<>> ELSE <<current[1].value>> \o Walk(current[1].next)

\* The second loop of clone: push nodes[l-1-i] for i = i..l-1.
RECURSIVE ClonePush(_, _, _)
ClonePush(nl, nodes, i) ==
    LET l == Len(nodes)
    IN  IF i < l THEN ClonePush(push_front(nl, nodes[l - 1 - i + 1]), nodes, i + 1) ELSE nl

\* Clone::clone pushing the collected values first to last.
clone_in_collected_order(l) ==
    LET nodes == Walk(l.head)
        Fwd[i \in 0..Len(nodes)] ==
            IF i = 0 THEN LinkedListNew ELSE push_front(Fwd[i - 1], nodes[i])
    IN  Fwd[Len(nodes)]

\* Clone::clone (nodes is 1-based here, hence the + 1 in ClonePush).
clone(l) ==
    LET nodes == Walk(l.head)
    IN  ClonePush(LinkedListNew, nodes, 0)

\* The loop of PartialEq::eq over the two cursors.
RECURSIVE EqLoop(_, _)
EqLoop(self_current, other_current) ==
    CASE self_current # <<>> /\ other_current # <<>> ->
            IF self_current[1].value # other_current[1].value
            THEN FALSE
            ELSE EqLoop(self_current[1].next, other_current[1].next)
      [] self_current = <<>> /\ other_current = <<>> -> TRUE
      [] OTHER -> FALSE

\* PartialEq::eq
eq(self, other) ==
    IF self.size # other.size THEN FALSE ELSE EqLoop(self.head, other.head)

notList == <<debuggerVars, balancerVars, unwindVars, upstreamVars, mapVars>>

PushFront ==
    /\ list.size < MaxListLen
    /\ \E v \in Values : list' = push_front(list, v)
    /\ lastOp' = "push_front"
    /\ lastRet' = <<>>
    /\ UNCHANGED <<new_list, cloned, notList>>

PopFront ==
    /\ LET r == pop_front(list)
       IN  /\ list' = r.l
           /\ lastRet' = r.ret
    /\ lastOp' = "pop_front"
    /\ UNCHANGED <<new_list, cloned, notList>>

\* let mut new_list = list.clone();
CloneList ==
    /\ new_list' = clone(list)
    /\ cloned' = TRUE
    /\ lastOp' = "clone"
    /\ lastRet' = <<>>
    /\ UNCHANGED <<list, notList>>

NewPushFront ==
    /\ cloned
    /\ new_list.size < MaxListLen
    /\ \E v \in Values : new_list' = push_front(new_list, v)
    /\ lastOp' = "new_push_front"
    /\ lastRet' = <<>>
    /\ UNCHANGED <<list, cloned, notList>>

NewPopFront ==
    /\ cloned
    /\ LET r == pop_front(new_list)
       IN  /\ new_list' = r.l
           /\ lastRet' = r.ret
    /\ lastOp' = "new_pop_front"
    /\ UNCHANGED <<list, cloned, notList>>

NextList == PushFront \/ PopFront \/ CloneList \/ NewPushFront \/ NewPopFront

SpecList == Init /\ [][NextList]_vars

\* ------------------------------------------------------------ claims
\* The size field counts the nodes, and is_empty says whether there are none.
SizeCounts(l) ==
    /\ get_size(l) = Len(Walk(l.head))
    /\ is_empty(l) <=> (Walk(l.head) = <<>>)

\* C19: after every sequence of push_front and pop_front on a list made by
\* LinkedList::new, get_size is the number of elements stored and is_empty
\* holds exactly when that number is 0; pop_front on an empty list returns
\* None and leaves the size at 0.
C19_SizeMatchesContents ==
    [][ /\ SizeCounts(list) /\ SizeCounts(list')
        /\ SizeCounts(new_list) /\ SizeCounts(new_list')
        /\ (lastOp' = "pop_front" /\ Walk(list.head) = <<>>) =>
              (lastRet' = <<>> /\ get_size(list') = 0 /\ list'.head = <<>>)
        /\ (lastOp' = "pop_front" /\ Walk(list.head) # <<>>) =>
              (lastRet' = <<Head(Walk(list.head))>> /\ Walk(list'.head) = Tail(Walk(list.head)))
        /\ lastOp' = "push_front" =>
              (Len(Walk(list'.head)) = Len(Walk(list.head)) + 1 /\ Tail(Walk(list'.head)) = Walk(list.head))
      ]_vars
\* pop_front returned None on the original, emptied after a full-length
\* clone was taken of it.
C19_Witness ==
    /\ lastOp = "pop_front"
    /\ lastRet = <<>>
    /\ get_size(list) = 0
    /\ cloned /\ get_size(new_list) = MaxListLen

\* C20: clone yields a list equal to the original (same length, same
\* elements, same order); push_front and pop_front on the clone leave the
\* original as it was; after a pop_front on the clone of a non-empty list
\* the two compare unequal.
C20_CloneEqualAndIndependent ==
    [][ /\ lastOp' = "clone" =>
              /\ eq(new_list', list') /\ eq(list', new_list')
              /\ Walk(new_list'.head) = Walk(list.head)
              /\ get_size(new_list') = get_size(list)
              /\ list' = list
        /\ lastOp' \in {"new_pop_front", "new_push_front"} => list' = list
        /\ (lastOp = "clone" /\ lastOp' = "new_pop_front" /\ ~is_empty(list)) =>
              (~eq(new_list', list') /\ ~eq(list', new_list'))
      ]_vars
C20_Witness ==
    /\ lastOp = "new_pop_front"
    /\ get_size(list) = MaxListLen
    /\ Walk(list.head)[1] # Walk(list.head)[2]
    /\ Walk(new_list.head) = Tail(Walk(list.head))
    /\ ~eq(new_list, list)


\* ================================================ proj-2/balancebeam
\* Largest option value tried, and caps on what one client does within
\* one window.
MaxLimit == 2
MaxOpen == 2
MaxRequests == 3

notBalancer == <<debuggerVars, listVars, unwindVars, upstreamVars, mapVars>>

\* The accept loop's rate check for a connection from ip (lines 121-138):
\* the new count_map and whether the connection is answered 429.
RateCheck(ip) ==
    IF max_requests_per_minute > 0
    THEN IF ip \notin DOMAIN count_map
         THEN [map |-> MapInsert(count_map, ip, 1), too_many |-> FALSE]
         ELSE IF count_map[ip] >= max_requests_per_minute
              THEN [map |-> count_map, too_many |-> TRUE]
              ELSE [map |-> [count_map EXCEPT ![ip] = @ + 1], too_many |-> FALSE]
    ELSE [map |-> count_map, too_many |-> FALSE]

\* One turn of the accept loop for a connection from ip: the rate check,
\* then handle_connection is spawned; its connect_to_upstream either gives
\* an upstream connection (the task stays, reading requests) or fails (502,
\* the task returns).
Accept(ip) ==
    /\ LET c == RateCheck(ip)
       IN  /\ count_map' = c.map
           /\ IF c.too_many
              THEN /\ rejected[ip] < MaxRequests
                   /\ rejected' = [rejected EXCEPT ![ip] = @ + 1]
                   /\ UNCHANGED open_conns
              ELSE /\ UNCHANGED rejected
                   /\ \E upstream_ok \in BOOLEAN :
                         IF upstream_ok
                         THEN /\ open_conns[ip] < MaxOpen
                              /\ open_conns' = [open_conns EXCEPT ![ip] = @ + 1]
                         ELSE UNCHANGED open_conns
    /\ UNCHANGED <<max_requests_per_minute, forwarded, notBalancer>>

\* One turn of handle_connection's loop (lines 205-267) on a connection
\* from ip: a request is read and written to the upstream.
Forward(ip) ==
    /\ open_conns[ip] > 0
    /\ forwarded[ip] < MaxRequests
    /\ forwarded' = [forwarded EXCEPT ![ip] = @ + 1]
    /\ UNCHANGED <<max_requests_per_minute, count_map, open_conns, rejected, notBalancer>>

\* handle_connection returns: the client hung up, or a read or write failed.
Close(ip) ==
    /\ open_conns[ip] > 0
    /\ open_conns' = [open_conns EXCEPT ![ip] = @ - 1]
    /\ UNCHANGED <<max_requests_per_minute, count_map, forwarded, rejected, notBalancer>>

\* rate_limiting_refresh, run every 60 seconds; a new window of
\* observation starts with it.
Refresh ==
    /\ count_map' = [ip \in {} |-> 0]
    /\ forwarded' = [ip \in Clients |-> 0]
    /\ rejected' = [ip \in Clients |-> 0]
    /\ UNCHANGED <<max_requests_per_minute, open_conns, notBalancer>>

AcceptAny == \E ip \in Clients : Accept(ip)
ForwardAny == \E ip \in Clients : Forward(ip)
CloseAny == \E ip \in Clients : Close(ip)

InitRate ==
    /\ DebuggerInit
    /\ ListInit
    /\ UnwindIdle
    /\ UpstreamInit
    /\ MapIdle
    /\ \E max \in 0..MaxLimit : BalancerInit(max)

NextRate == AcceptAny \/ ForwardAny \/ CloseAny \/ Refresh

SpecRate == InitRate /\ [][NextRate]_vars

\* ------------------------------------------------------------ claims
\* C18: with max_requests_per_minute = m > 0 no client IP has more than m
\* requests forwarded upstream within one minute (here: between two
\* refreshes of the window); with m = 0 nothing is ever answered 429.
C18_RateLimited ==
    /\ max_requests_per_minute > 0 =>
          \A ip \in Clients : forwarded[ip] <= max_requests_per_minute
    /\ max_requests_per_minute = 0 =>
          \A ip \in Clients : rejected[ip] = 0


\* ================================= proj-1/deet: Inferior::print_backtrace
\* Deepest nesting of calls in the target.
MaxDepth == 4

\* The target: three functions of FnLen addresses each; the runtime that
\* called main lies at StartAddr and has no debug information.  Frames are
\* FrameSize bytes: the saved frame pointer at fp, the return address at
\* fp + WordSize.
Functions == {"main", "f", "g"}
FnLen == 4
FnEntry(fn) == CASE fn = "main" -> 10 [] fn = "f" -> 20 [] OTHER -> 30
StartAddr == 1
StackTop == 200
FrameSize == 16
FrameAt(depth) == StackTop - FrameSize * depth
StackSlots == UNION {{FrameAt(d), FrameAt(d) + WordSize} : d \in 1..MaxDepth}

\* DwarfData::get_function_from_addr ("" for None); get_line_from_addr
\* answers for the same addresses.
get_function_from_addr(addr) ==
    IF \E fn \in Functions : addr \in FnEntry(fn)..(FnEntry(fn) + FnLen - 1)
    THEN CHOOSE fn \in Functions : addr \in FnEntry(fn)..(FnEntry(fn) + FnLen - 1)
    ELSE ""

\* ptrace::read of one word of the target's stack.
ReadWord(mem, addr) ==
    IF addr \in DOMAIN mem THEN [ok |-> TRUE, v |-> mem[addr]] ELSE [ok |-> FALSE, v |-> 0]

\* The two reads with the offsets exchanged.
NextFrame_offsets_swapped(mem, rbp) ==
    LET ra == ReadWord(mem, rbp)
        fp == ReadWord(mem, rbp + WordSize)
    IN  [ok |-> ra.ok /\ fp.ok, rip |-> ra.v, rbp |-> fp.v]

\* Lines 166-167: the caller's rip is the word at rbp + 8, the caller's rbp
\* the word at rbp.
NextFrame(mem, rbp) ==
    LET ra == ReadWord(mem, rbp + WordSize)
        fp == ReadWord(mem, rbp)
    IN  [ok |-> ra.ok /\ fp.ok, rip |-> ra.v, rbp |-> fp.v]

\* The loop of print_backtrace: unwrap() panics on an address without
\* debug information, `?` returns the error of a failed read.
RECURSIVE BacktraceLoop(_, _, _, _)
BacktraceLoop(mem, rip, rbp, out) ==
    LET func_name == get_function_from_addr(rip)
    IN  IF func_name = ""
        THEN [frames |-> out, result |-> "panic"]
        ELSE IF func_name = "main"
             THEN [frames |-> Append(out, func_name), result |-> "ok"]
             ELSE LET n == NextFrame(mem, rbp)
                  IN  IF ~n.ok
                      THEN [frames |-> Append(out, func_name), result |-> "err"]
                      ELSE BacktraceLoop(mem, n.rip, n.rbp, Append(out, func_name))

\* Inferior::print_backtrace, from the registers getregs returned.
print_backtrace(mem, rip, rbp) == BacktraceLoop(mem, rip, rbp, <<>>)

notUnwind == <<debuggerVars, listVars, balancerVars, upstreamVars, mapVars>>

\* The target was started and is stopped at the entry of main: the runtime
\* has pushed the return address, main has not pushed a frame pointer yet.
UnwindInit ==
    /\ t_rip = FnEntry("main")
    /\ t_rbp = 0
    /\ t_stack = [a \in StackSlots |-> IF a = FrameAt(1) + WordSize THEN StartAddr ELSE 0]
    /\ t_chain = <<"main">>
    /\ t_prologue = TRUE
    /\ frames = <<>>
    /\ bt_result = "none"

\* The target runs on and stops in the body of the function it just
\* entered: `push rbp; mov rbp, rsp` have run.
TargetPrologue ==
    /\ t_prologue
    /\ LET fp == FrameAt(Len(t_chain))
       IN  /\ t_stack' = [t_stack EXCEPT ![fp] = t_rbp]
           /\ t_rbp' = fp
    /\ \E off \in 1..2 : t_rip' = t_rip + off
    /\ t_prologue' = FALSE
    /\ frames' = <<>>
    /\ bt_result' = "none"
    /\ UNCHANGED <<t_chain, notUnwind>>

\* The target runs on and stops at the entry of a function it called: the
\* call pushed the return address.
TargetCall ==
    /\ ~t_prologue
    /\ Len(t_chain) < MaxDepth
    /\ t_rip + 1 < FnEntry(get_function_from_addr(t_rip)) + FnLen
    /\ \E fn \in Functions :
        /\ t_chain' = Append(t_chain, fn)
        /\ t_rip' = FnEntry(fn)
    /\ t_stack' = [t_stack EXCEPT ![FrameAt(Len(t_chain) + 1) + WordSize] = t_rip + 1]
    /\ t_prologue' = TRUE
    /\ frames' = <<>>
    /\ bt_result' = "none"
    /\ UNCHANGED <<t_rbp, notUnwind>>

\* The target runs on and stops in the caller after the innermost
\* function returned (`pop rbp; ret`).
TargetReturn ==
    /\ ~t_prologue
    /\ Len(t_chain) > 1
    /\ t_rip' = t_stack[t_rbp + WordSize]
    /\ t_rbp' = t_stack[t_rbp]
    /\ t_chain' = SubSeq(t_chain, 1, Len(t_chain) - 1)
    /\ frames' = <<>>
    /\ bt_result' = "none"
    /\ UNCHANGED <<t_stack, t_prologue, notUnwind>>

\* The Backtrace command on the stopped target.
PrintBacktrace ==
    /\ bt_result = "none"
    /\ LET b == print_backtrace(t_stack, t_rip, t_rbp)
       IN  /\ frames' = b.frames
           /\ bt_result' = b.result
    /\ UNCHANGED <<t_rip, t_rbp, t_stack, t_chain, t_prologue, notUnwind>>

InitUnwind ==
    /\ DebuggerInit
    /\ ListInit
    /\ BalancerInit(0)
    /\ UpstreamInit
    /\ MapIdle
    /\ UnwindInit

NextUnwind == TargetPrologue \/ TargetCall \/ TargetReturn \/ PrintBacktrace

SpecUnwind == InitUnwind /\ [][NextUnwind]_vars

\* ------------------------------------------------------------ claims
\* The k-th instruction pointer and frame pointer met when following the
\* return address at fp + 8 and the saved frame pointer at fp + 0 from the
\* stopped target's registers (NoAddr once a word cannot be read).
WalkFrom[k \in 1..(MaxDepth + 2)] ==
    IF k = 1 THEN [rip |-> t_rip, rbp |-> t_rbp]
    ELSE LET prev == WalkFrom[k - 1]
         IN  IF prev.rbp \in DOMAIN t_stack /\ (prev.rbp + 8) \in DOMAIN t_stack
             THEN [rip |-> t_stack[prev.rbp + 8], rbp |-> t_stack[prev.rbp]]
             ELSE [rip |-> NoAddr, rbp |-> NoAddr]

\* The active functions from the innermost outwards, up to and including
\* the first main.
RECURSIVE UpToMain(_)
UpToMain(inner_first) ==
    IF inner_first = <<>> THEN <<>>
    ELSE IF Head(inner_first) = "main" THEN <<"main">>
         ELSE <<Head(inner_first)>> \o UpToMain(Tail(inner_first))
Reverse(q) == [i \in 1..Len(q) |-> q[Len(q) + 1 - i]]

\* C16: Backtrace emits the function of ip, then of each return address
\* found at fp + 8 while moving to the saved frame pointer at fp + 0, and
\* stops right after the first frame whose function is main; stopped inside
\* main it emits exactly the one frame main.  For a target stopped in a
\* function body these are the active functions, innermost first.
C16_BacktraceWalk ==
    bt_result # "none" =>
        /\ Len(frames) \in 1..(MaxDepth + 1)
        /\ \A k \in 1..Len(frames) :
              /\ frames[k] = get_function_from_addr(WalkFrom[k].rip)
              /\ frames[k] = "main" => k = Len(frames)
        /\ bt_result = "ok" <=> frames[Len(frames)] = "main"
        /\ get_function_from_addr(t_rip) = "main" =>
              (bt_result = "ok" /\ frames = <<"main">>)
        /\ ~t_prologue =>
              (bt_result = "ok" /\ frames = UpToMain(Reverse(t_chain)))
C16_Witness ==
    /\ bt_result = "ok"
    /\ ~t_prologue
    /\ t_chain = <<"main", "main", "f", "g">>
    /\ frames = <<"g", "f", "main">>


\* ======================== proj-2/balancebeam: upstream lists and mutexes
\* Longest Vec the lists are let grow to.
MaxVecLen == 3

notUpstream == <<debuggerVars, listVars, balancerVars, unwindVars, mapVars>>

\* Vec::remove(index), 1-based here.
VecRemove(v, index) == [i \in 1..(Len(v) - 1) |-> IF i < index THEN v[i] ELSE v[i + 1]]

\* Vec::retain with the closure of line 323: the i-th element stays when
\* the i-th flag is true.
RECURSIVE Retain(_, _)
Retain(v, flags) ==
    IF v = <<>> THEN <<>>
    ELSE (IF Head(flags) THEN <<Head(v)>> ELSE <<>>) \o Retain(Tail(v), Tail(flags))

\* handle_connection calls connect_to_upstream (line 193).
ConnStart(t) ==
    /\ task_pc[t] = "idle"
    /\ task_pc' = [task_pc EXCEPT ![t] = "lock_upstream"]
    /\ connect_result' = [connect_result EXCEPT ![t] = NoResult]
    /\ UNCHANGED <<upstream_addresses, dead_upstream_addresses, upstream_lock, dead_lock,
                   upstream_idx, new_dead_addresses, notUpstream>>

\* connect_to_upstream, lines 156-161: the upstream mutex is acquired; an
\* empty list returns the error (the guard is dropped), otherwise an index
\* is drawn and the connect begins with the guard held.
ConnLockUpstream(t) ==
    /\ task_pc[t] = "lock_upstream"
    /\ upstream_lock = Free
    /\ IF Len(upstream_addresses) = 0
       THEN /\ task_pc' = [task_pc EXCEPT ![t] = "idle"]
            /\ connect_result' = [connect_result EXCEPT ![t] = [kind |-> "bad_gateway", addr |-> 0]]
            /\ UNCHANGED <<upstream_lock, upstream_idx>>
       ELSE /\ upstream_lock' = t
            /\ \E idx \in 1..Len(upstream_addresses) : upstream_idx' = [upstream_idx EXCEPT ![t] = idx]
            /\ task_pc' = [task_pc EXCEPT ![t] = "connecting"]
            /\ UNCHANGED connect_result
    /\ UNCHANGED <<upstream_addresses, dead_upstream_addresses, dead_lock, new_dead_addresses, notUpstream>>

\* Lines 162-167: TcpStream::connect completes.  Ok returns the stream (the
\* guard is dropped); Err goes on to lock the dead list, guard still held.
ConnConnect(t) ==
    /\ task_pc[t] = "connecting"
    /\ \E connected \in BOOLEAN :
        IF connected
        THEN /\ upstream_lock' = Free
             /\ task_pc' = [task_pc EXCEPT ![t] = "idle"]
             /\ connect_result' = [connect_result EXCEPT
                                     ![t] = [kind |-> "ok", addr |-> upstream_addresses[upstream_idx[t]]]]
        ELSE /\ task_pc' = [task_pc EXCEPT ![t] = "lock_dead"]
             /\ UNCHANGED <<upstream_lock, connect_result>>
    /\ UNCHANGED <<upstream_addresses, dead_upstream_addresses, dead_lock, upstream_idx,
                   new_dead_addresses, notUpstream>>

\* Lines 171-176: the dead mutex is acquired, the address moves from the
\* live list to the dead list, both guards are dropped at the end of the
\* loop body and the loop starts again.
ConnLockDead(t) ==
    /\ task_pc[t] = "lock_dead"
    /\ dead_lock = Free
    /\ Len(dead_upstream_addresses) < MaxVecLen
    /\ dead_upstream_addresses' = Append(dead_upstream_addresses, upstream_addresses[upstream_idx[t]])
    /\ upstream_addresses' = VecRemove(upstream_addresses, upstream_idx[t])
    /\ upstream_lock' = Free
    /\ task_pc' = [task_pc EXCEPT ![t] = "lock_upstream"]
    /\ UNCHANGED <<dead_lock, upstream_idx, new_dead_addresses, connect_result, notUpstream>>

\* main, lines 102-107: the delay is over, perform_health_check is called.
HealthWake ==
    /\ task_pc[HealthTask] = "sleep"
    /\ task_pc' = [task_pc EXCEPT ![HealthTask] = "lock_dead"]
    /\ UNCHANGED <<upstream_addresses, dead_upstream_addresses, upstream_lock, dead_lock,
                   upstream_idx, new_dead_addresses, connect_result, notUpstream>>

\* perform_health_check, line 271.
HealthLockDead ==
    /\ task_pc[HealthTask] = "lock_dead"
    /\ dead_lock = Free
    /\ dead_lock' = HealthTask
    /\ task_pc' = [task_pc EXCEPT ![HealthTask] = "lock_upstream"]
    /\ UNCHANGED <<upstream_addresses, dead_upstream_addresses, upstream_lock,
                   upstream_idx, new_dead_addresses, connect_result, notUpstream>>

\* Lines 272-276: the upstream mutex is acquired with the dead guard held;
\* the live list is appended to the dead list and emptied.
HealthLockUpstream ==
    /\ task_pc[HealthTask] = "lock_upstream"
    /\ upstream_lock = Free
    /\ Len(dead_upstream_addresses) + Len(upstream_addresses) <= MaxVecLen
    /\ upstream_lock' = HealthTask
    /\ dead_upstream_addresses' = dead_upstream_addresses \o upstream_addresses
    /\ upstream_addresses' = <<>>
    /\ new_dead_addresses' = <<>>
    /\ task_pc' = [task_pc EXCEPT ![HealthTask] = "probing"]
    /\ UNCHANGED <<dead_lock, upstream_idx, connect_result, notUpstream>>

\* What one turn of the loop of lines 278-320 can meet.
ProbeOutcomes == {"connect_failed", "write_failed", "read_failed", "status_above_400", "healthy"}

\* One turn of the loop, for the address at the position the flags have
\* reached.  A failed read of the response returns from the function then
\* and there (line 309): both guards are dropped.
HealthProbe ==
    /\ task_pc[HealthTask] = "probing"
    /\ Len(new_dead_addresses) < Len(dead_upstream_addresses)
    /\ LET addr == dead_upstream_addresses[Len(new_dead_addresses) + 1]
       IN  \E outcome \in ProbeOutcomes :
            CASE outcome = "healthy" ->
                    /\ new_dead_addresses' = Append(new_dead_addresses, FALSE)
                    /\ upstream_addresses' = Append(upstream_addresses, addr)
                    /\ UNCHANGED <<upstream_lock, dead_lock, task_pc>>
              [] outcome = "read_failed" ->
                    /\ new_dead_addresses' = Append(new_dead_addresses, TRUE)
                    /\ upstream_lock' = Free
                    /\ dead_lock' = Free
                    /\ task_pc' = [task_pc EXCEPT ![HealthTask] = "sleep"]
                    /\ UNCHANGED upstream_addresses
              [] OTHER ->
                    /\ new_dead_addresses' = Append(new_dead_addresses, TRUE)
                    /\ UNCHANGED <<upstream_addresses, upstream_lock, dead_lock, task_pc>>
    /\ UNCHANGED <<dead_upstream_addresses, upstream_idx, connect_result, notUpstream>>

\* Lines 322-325: the loop is over, the addresses found healthy leave the
\* dead list, the guards are dropped.
HealthFinish ==
    /\ task_pc[HealthTask] = "probing"
    /\ Len(new_dead_addresses) = Len(dead_upstream_addresses)
    /\ dead_upstream_addresses' = Retain(dead_upstream_addresses, new_dead_addresses)
    /\ upstream_lock' = Free
    /\ dead_lock' = Free
    /\ task_pc' = [task_pc EXCEPT ![HealthTask] = "sleep"]
    /\ UNCHANGED <<upstream_addresses, upstream_idx, new_dead_addresses, connect_result, notUpstream>>

ConnStartAny == \E t \in ConnTasks : ConnStart(t)
ConnLockUpstreamAny == \E t \in ConnTasks : ConnLockUpstream(t)
ConnConnectAny == \E t \in ConnTasks : ConnConnect(t)
ConnLockDeadAny == \E t \in ConnTasks : ConnLockDead(t)

NextUpstream ==
    \/ ConnStartAny \/ ConnLockUpstreamAny \/ ConnConnectAny \/ ConnLockDeadAny
    \/ HealthWake \/ HealthLockDead \/ HealthLockUpstream \/ HealthProbe \/ HealthFinish

SpecUpstream == Init /\ [][NextUpstream]_vars

\* ------------------------------------------------------------ claims
\* Task t holds one mutex and waits for the other.
HoldsUpstreamWantsDead(t) == upstream_lock = t /\ task_pc[t] = "lock_dead"
HoldsDeadWantsUpstream(t) == dead_lock = t /\ task_pc[t] = "lock_upstream"

\* C26: no state has one task holding the upstream_addresses mutex while
\* it waits for dead_upstream_addresses and another task holding
\* dead_upstream_addresses while it waits for upstream_addresses.
C26_NoLockCycle ==
    \A t1, t2 \in ConnTasks \cup {HealthTask} :
        ~(HoldsUpstreamWantsDead(t1) /\ HoldsDeadWantsUpstream(t2))

Occurrences(v, x) == Cardinality({i \in DOMAIN v : v[i] = x})

\* C27: whenever neither mutex is held every configured upstream is in
\* exactly one of the two lists, exactly once.
C27_EachUpstreamOnce ==
    (upstream_lock = Free /\ dead_lock = Free) =>
        \A u \in Upstreams :
            Occurrences(upstream_addresses, u) + Occurrences(dead_upstream_addresses, u) = 1

\* C28: connect_to_upstream always terminates: a task inside it that
\* waits for a mutex is never waiting for a holder that itself waits for
\* the mutex the task holds; the error is returned only with the live list
\* empty, and a returned connection is to an address of the live list.
C28_ConnectTerminates ==
    \A t \in ConnTasks :
        /\ (task_pc[t] = "lock_dead" /\ dead_lock # Free) =>
                ~(task_pc[dead_lock] = "lock_upstream" /\ upstream_lock = t)
        /\ (task_pc[t] = "connecting") =>
                upstream_idx[t] \in 1..Len(upstream_addresses)
        /\ (connect_result[t].kind = "ok") => connect_result[t].addr \in Upstreams


\* ================================================== week6/parallel_map
\* Longest input vector and largest num_threads looked at.
MaxInputLen == 2
MaxThreads == 2

\* Values of the input vector.
Inputs == {2, 3}

\* The closure main passes: num * num.
f(num) == num * num

notMap == <<debuggerVars, listVars, balancerVars, unwindVars, upstreamVars>>

InputVecs == UNION {[1..n -> Inputs] : n \in 0..MaxInputLen}

\* Lines 31-33, one turn of the sender thread's loop: pop the last value,
\* take the length after the pop as its index, send both.
SenderSend_pops_front ==
    /\ thread_send = "running"
    /\ input_vec # <<>>
    /\ LET v == Head(input_vec)
           rest == Tail(input_vec)
           i == Len(rest)
       IN  /\ input_vec' = rest
           /\ chan_in' = Append(chan_in, <<i, v>>)
    /\ UNCHANGED <<input0, num_threads, output_vec, chan_out, sender_in, sender_out, thread_send,
                   threads, held, counter, main_pc, joined, processed, written, notMap>>

SenderSend ==
    /\ thread_send = "running"
    /\ input_vec # <<>>
    /\ LET v == input_vec[Len(input_vec)]
           rest == SubSeq(input_vec, 1, Len(input_vec) - 1)
           i == Len(rest)
       IN  /\ input_vec' = rest
           /\ chan_in' = Append(chan_in, <<i, v>>)
    /\ UNCHANGED <<input0, num_threads, output_vec, chan_out, sender_in, sender_out, thread_send,
                   threads, held, counter, main_pc, joined, processed, written, notMap>>

\* Line 31 with the vector empty: the loop and the thread end, and the
\* closure's sender_in_ref is dropped with it.
SenderFinish ==
    /\ thread_send = "running"
    /\ input_vec = <<>>
    /\ thread_send' = "finished"
    /\ UNCHANGED <<input0, num_threads, input_vec, output_vec, chan_in, chan_out, sender_in,
                   sender_out, threads, held, counter, main_pc, joined, processed, written, notMap>>

\* The input channel is disconnected: main's sender_in and the sender
\* thread's clone are both dropped.
InputDisconnected == ~sender_in /\ thread_send = "finished"

\* Lines 22-23: a worker receives (i, v) and applies f.
WorkerRecv(w) ==
    /\ threads[w] = "recv"
    /\ chan_in # <<>>
    /\ LET i == Head(chan_in)[1]
           v == Head(chan_in)[2]
       IN  /\ held' = [held EXCEPT ![w] = <<i, f(v)>>]
           /\ processed' = [processed EXCEPT ![i + 1] = Append(@, w)]
    /\ chan_in' = Tail(chan_in)
    /\ threads' = [threads EXCEPT ![w] = "send"]
    /\ UNCHANGED <<input0, num_threads, input_vec, output_vec, chan_out, sender_in, sender_out,
                   thread_send, counter, main_pc, joined, written, notMap>>

\* Line 24: the worker sends (i, result).  receiver_out lives until
\* parallel_map returns, so the send succeeds.
WorkerSend(w) ==
    /\ threads[w] = "send"
    /\ chan_out' = Append(chan_out, held[w])
    /\ held' = [held EXCEPT ![w] = <<>>]
    /\ threads' = [threads EXCEPT ![w] = "recv"]
    /\ UNCHANGED <<input0, num_threads, input_vec, output_vec, chan_in, sender_in, sender_out,
                   thread_send, counter, main_pc, joined, processed, written, notMap>>

\* Line 22, recv returning Err: the channel is empty and disconnected,
\* the worker's loop and the worker end.
WorkerFinish(w) ==
    /\ threads[w] = "recv"
    /\ chan_in = <<>>
    /\ InputDisconnected
    /\ threads' = [threads EXCEPT ![w] = "finished"]
    /\ UNCHANGED <<input0, num_threads, input_vec, output_vec, chan_in, chan_out, sender_in,
                   sender_out, thread_send, held, counter, main_pc, joined, processed, written, notMap>>

\* Lines 38-41, one turn of the collecting loop.  main's own sender_out is
\* alive during the loop, so recv blocks on an empty channel and never
\* returns Err.
MainCollect ==
    /\ main_pc = "collect"
    /\ counter < Len(input0)
    /\ chan_out # <<>>
    /\ LET i == Head(chan_out)[1]
           v == Head(chan_out)[2]
       IN  /\ output_vec' = [output_vec EXCEPT ![i + 1] = v]
           /\ written' = [written EXCEPT ![i + 1] = @ + 1]
    /\ chan_out' = Tail(chan_out)
    /\ counter' = counter + 1
    /\ UNCHANGED <<input0, num_threads, input_vec, chan_in, sender_in, sender_out, thread_send,
                   threads, held, main_pc, joined, processed, notMap>>

\* Lines 47-48, once the loop is over, without main's sender_in dropped.
MainDrop_keeps_sender_in ==
    /\ main_pc = "collect"
    /\ counter >= Len(input0)
    /\ sender_in' = sender_in
    /\ sender_out' = FALSE
    /\ main_pc' = "join_sender"
    /\ UNCHANGED <<input0, num_threads, input_vec, output_vec, chan_in, chan_out, thread_send,
                   threads, held, counter, joined, processed, written, notMap>>

\* Lines 47-48, once the loop is over: both of main's senders are dropped.
MainDrop ==
    /\ main_pc = "collect"
    /\ counter >= Len(input0)
    /\ sender_in' = FALSE
    /\ sender_out' = FALSE
    /\ main_pc' = "join_sender"
    /\ UNCHANGED <<input0, num_threads, input_vec, output_vec, chan_in, chan_out, thread_send,
                   threads, held, counter, joined, processed, written, notMap>>

\* Line 50: join of the sender thread.
MainJoinSender ==
    /\ main_pc = "join_sender"
    /\ thread_send = "finished"
    /\ main_pc' = "join_workers"
    /\ UNCHANGED <<input0, num_threads, input_vec, output_vec, chan_in, chan_out, sender_in,
                   sender_out, thread_send, threads, held, counter, joined, processed, written, notMap>>

\* Lines 51-53: join of the next worker, in spawn order.
MainJoinWorker ==
    /\ main_pc = "join_workers"
    /\ joined < num_threads
    /\ threads[joined + 1] = "finished"
    /\ joined' = joined + 1
    /\ UNCHANGED <<input0, num_threads, input_vec, output_vec, chan_in, chan_out, sender_in,
                   sender_out, thread_send, threads, held, counter, main_pc, processed, written, notMap>>

\* Line 55: every thread is joined, output_vec is returned.
MainReturn ==
    /\ main_pc = "join_workers"
    /\ joined = num_threads
    /\ main_pc' = "returned"
    /\ UNCHANGED <<input0, num_threads, input_vec, output_vec, chan_in, chan_out, sender_in,
                   sender_out, thread_send, threads, held, counter, joined, processed, written, notMap>>

WorkerRecvAny == \E w \in DOMAIN threads : WorkerRecv(w)
WorkerSendAny == \E w \in DOMAIN threads : WorkerSend(w)
WorkerFinishAny == \E w \in DOMAIN threads : WorkerFinish(w)

\* A call with any input vector and any num_threads within the bounds.
InitMap ==
    /\ DebuggerInit
    /\ ListInit
    /\ BalancerInit(0)
    /\ UnwindIdle
    /\ UpstreamInit
    /\ \E input \in InputVecs, n \in 0..MaxThreads : MapInit(input, n)

NextMap ==
    \/ SenderSend \/ SenderFinish
    \/ WorkerRecvAny \/ WorkerSendAny \/ WorkerFinishAny
    \/ MainCollect \/ MainDrop \/ MainJoinSender \/ MainJoinWorker \/ MainReturn

SpecMap == InitMap /\ [][NextMap]_vars

\* The scheduler runs every thread that can take a step: the sender
\* thread, each worker and the calling thread.
MainStep == MainCollect \/ MainDrop \/ MainJoinSender \/ MainJoinWorker \/ MainReturn
SenderStep == SenderSend \/ SenderFinish
WorkerStep(w) == w \in DOMAIN threads /\ (WorkerRecv(w) \/ WorkerSend(w) \/ WorkerFinish(w))

SpecMapFair ==
    /\ InitMap
    /\ [][NextMap]_vars
    /\ WF_vars(MainStep)
    /\ WF_vars(SenderStep)
    /\ \A w \in 1..MaxThreads : WF_vars(WorkerStep(w))

\* ------------------------------------------------------------ claims
\* C29: with num_threads >= 1 the returned vector has the input's length
\* and holds f(input[i]) at every index i; at any moment no index has been
\* processed by more than one worker or stored more than once, and at the
\* return each has been processed and stored exactly once.
C29_MapsEveryIndexOnce ==
    /\ \A i \in DOMAIN processed : Len(processed[i]) <= 1 /\ written[i] <= 1
    /\ (main_pc = "returned" /\ num_threads >= 1) =>
        /\ Len(output_vec) = Len(input0)
        /\ \A i \in 1..Len(input0) :
            /\ output_vec[i] = f(input0[i])
            /\ Len(processed[i]) = 1
            /\ written[i] = 1

C29_Witness ==
    /\ main_pc = "returned"
    /\ input0 = <<2, 3>>
    /\ output_vec = <<4, 9>>
    /\ processed = <<<<2>>, <<1>>>>

AllJoined == main_pc = "returned" /\ thread_send = "finished" /\ joined = num_threads
                /\ \A w \in DOMAIN threads : threads[w] = "finished"

\* C30: the call returns, the sender thread and every worker joined, when
\* num_threads >= 1 or the input is empty, and never returns otherwise;
\* once main has left the collecting loop every worker ends.
C30_ReturnsIffWorkersOrEmpty ==
    /\ (num_threads >= 1 \/ input0 = <<>>) => <>AllJoined
    /\ (num_threads = 0 /\ input0 # <<>>) => [](main_pc # "returned")
    /\ [](main_pc # "collect" => <>(\A w \in DOMAIN threads : threads[w] = "finished"))

C30_Witness ==
    /\ AllJoined
    /\ num_threads = 2
    /\ Len(input0) = 2
    /\ counter = 2

====
